---- MODULE Spec2Model ----
(***************************************************************************)
(* Vortex: virtual-DOM reconciliation (core/renderer), the component       *)
(* state abstraction (core/component) and the invalidation scheduler.      *)
(*                                                                         *)
(* The live DOM is a heap of nodes addressed by handles; VNode trees are   *)
(* nested records.  A VNode object allocated by resolveComponents carries  *)
(* an allocation number (id) standing for its Go pointer identity.         *)
(***************************************************************************)
EXTENDS Integers, Sequences, FiniteSets, TLC

\* ------------------------------------------------------------------------
\* Bounds
\* ------------------------------------------------------------------------
MaxKids == 3        \* longest child list of a generated tree
MaxSets == 3        \* state mutations on the child component per run
MaxAppSets == 1     \* App.SetState calls per run
MaxPatches == 2     \* direct Patch calls per run
MaxForeign == 1     \* children the parent has before the first Patch call
MaxRenders == 2     \* direct Renderer.Render calls per run

\* ------------------------------------------------------------------------
\* Values of the host environment and of Go
\* ------------------------------------------------------------------------
Container == 0              \* handle of the container element
NoNode == -1                \* js.Null() / js.Undefined(): not Truthy
NoComp == "nocomp"          \* nil Component interface
NoStyle == "nostyle"        \* nil *style.Style
NilVal == "<nil>"           \* nil interface{} (a missing map key reads as this)
NilV == [type |-> "Nil"]    \* nil *VNode
EmptyAttrs == [k \in {} |-> ""]

NoMap == "nomap"            \* an Attrs map no component holds

\* component.VNode; el is Element, comp is Component, id the pointer
\* identity; amap names the component whose vNode.Attrs map the node's
\* Attrs field points to (a Go map is a reference: a struct copy shares it)
VNode(type, tag, text, attrs, style, events, kids, comp) ==
    [type |-> type, tag |-> tag, text |-> text, attrs |-> attrs,
     style |-> style, events |-> events, children |-> kids,
     el |-> NoNode, comp |-> comp, id |-> 0, amap |-> NoMap]

Txt(t) == VNode("Text", "", t, EmptyAttrs, NoStyle, {}, <<>>, NoComp)
Elem(tag, attrs, style, kids) == VNode("Element", tag, "", attrs, style, {}, kids, NoComp)
CompRef(c) == VNode("Component", "", "", EmptyAttrs, NoStyle, {}, <<>>, c)

\* every order in which a Go map holding the keys S can be ranged over
Orders(S) == {o \in [1..Cardinality(S) -> S] : \A i, j \in DOMAIN o : i # j => o[i] # o[j]}

\* ------------------------------------------------------------------------
\* core/style: Style objects and their class names
\* ------------------------------------------------------------------------
\* three *Style objects; s1 and s3 are distinct objects with equal Base,
\* Pseudos and MediaQueries
StyleObjs == {"s1", "s2", "s3"}

\* Style.Base rendered by propsToCSS (keys sorted)
Base(st) == IF st = "s2" THEN "color:blue;" ELSE "color:red;"

\* Style.Pseudos: selector suffix -> propsToCSS of its properties
Pseudos(st) ==
    IF st = "s2" THEN [k \in {} |-> ""]
    ELSE (":hover" :> "color:green;") @@ (":focus" :> "color:black;")

\* the order in which GetClassName's one uncached run ranges over Pseudos,
\* per Style object constructed by the program
VARIABLE rangeOrder

RangeOrders == {f \in [StyleObjs -> UNION {Orders(DOMAIN Pseudos(st)) : st \in StyleObjs}] :
                  \A st \in StyleObjs : f[st] \in Orders(DOMAIN Pseudos(st))}

\* no Style object is constructed
NoRange == [st \in {} |-> <<>>]

\* genereateCSSContent: the base block, then each pseudo block as ranged over
genereateCSSContent(st) ==
    <<Base(st)>> \o [i \in DOMAIN rangeOrder[st] |-> <<rangeOrder[st][i], Pseudos(st)[rangeOrder[st][i]]>>]

\* fmt.Sprintf("vtx-%d", fnv32a(content)): distinct contents, distinct names
HashName(content) ==
    CASE content = <<"color:blue;">> -> "vtx-1"
      [] content = <<"color:red;", <<":hover", "color:green;">>, <<":focus", "color:black;">>>> -> "vtx-2"
      [] content = <<"color:red;", <<":focus", "color:black;">>, <<":hover", "color:green;">>>> -> "vtx-3"

\* Style.GetClassName: computed on the first call, cached in the object
GetClassName(st) == HashName(genereateCSSContent(st))

\* ------------------------------------------------------------------------
\* The DOM (syscall/js calls made by the renderer)
\* ------------------------------------------------------------------------
NewDomNode(kind, tag, text) ==
    [kind |-> kind, tag |-> tag, text |-> text, attrs |-> EmptyAttrs,
     hasCls |-> FALSE, cls |-> {}, listeners |-> {}, children |-> <<>>,
     parent |-> NoNode]

InitDom == (Container :> NewDomNode("elem", "container", ""))

Live(s, h) == h \in DOMAIN s.dom

Without(seq, x) == SelectSeq(seq, LAMBDA y : y # x)

Detach(dom, h) ==
    IF dom[h].parent = NoNode THEN dom
    ELSE [dom EXCEPT ![dom[h].parent].children = Without(@, h), ![h].parent = NoNode]

\* a DOM exception or a call on null/undefined panics the Go program
Throw(s) == [s EXCEPT !.ok = FALSE]

CreateDomObject(s, kind, tag, text) ==
    IF ~s.ok THEN s
    ELSE [s EXCEPT !.dom = (s.nh :> NewDomNode(kind, tag, text)) @@ s.dom,
                   !.nh = s.nh + 1,
                   !.ops = Append(@, [op |-> "create", h |-> s.nh])]

AppendChild(s, p, h) ==
    IF ~s.ok THEN s
    ELSE IF ~Live(s, p) \/ ~Live(s, h) THEN Throw(s)
    ELSE LET d1 == Detach(s.dom, h) IN
         [s EXCEPT !.dom = [d1 EXCEPT ![p].children = Append(@, h), ![h].parent = p],
                   !.ops = Append(@, [op |-> "appendChild", p |-> p, h |-> h])]

RemoveChild(s, p, h) ==
    IF ~s.ok THEN s
    ELSE IF ~Live(s, p) \/ ~Live(s, h) THEN Throw(s)
    ELSE IF s.dom[h].parent # p THEN Throw(s)
    ELSE [s EXCEPT !.dom = Detach(s.dom, h),
                   !.ops = Append(@, [op |-> "removeChild", p |-> p, h |-> h])]

ReplaceChild(s, p, new, old) ==
    IF ~s.ok THEN s
    ELSE IF ~Live(s, p) \/ ~Live(s, new) \/ ~Live(s, old) THEN Throw(s)
    ELSE IF s.dom[old].parent # p THEN Throw(s)
    ELSE LET d1 == Detach(s.dom, new)
             ch == d1[p].children
         IN [s EXCEPT !.dom = [d1 EXCEPT ![p].children =
                                            [i \in DOMAIN ch |-> IF ch[i] = old THEN new ELSE ch[i]],
                                         ![new].parent = p,
                                         ![old].parent = NoNode],
                      !.ops = Append(@, [op |-> "replaceChild", p |-> p, h |-> new, old |-> old])]

\* strings.Fields of a class string holding at most one token
Fields(v) == IF v = "" THEN {} ELSE {v}

PutAttr(attrs, k, v) == [x \in DOMAIN attrs \cup {k} |-> IF x = k THEN v ELSE attrs[x]]

\* element.setAttribute(k, v); the class attribute is kept as its token set
SetAttribute(s, h, k, v) ==
    IF ~s.ok THEN s
    ELSE IF ~Live(s, h) THEN Throw(s)
    ELSE IF s.dom[h].kind # "elem" THEN Throw(s)
    ELSE [s EXCEPT !.dom = IF k = "class"
                           THEN [s.dom EXCEPT ![h].hasCls = TRUE, ![h].cls = Fields(v)]
                           ELSE [s.dom EXCEPT ![h].attrs = PutAttr(@, k, v)],
                   !.ops = Append(@, [op |-> "setAttribute", h |-> h, k |-> k, v |-> v])]

\* element.style.cssText = v, reflected in the style attribute
SetCssText(s, h, v) ==
    IF ~s.ok THEN s
    ELSE IF ~Live(s, h) THEN Throw(s)
    ELSE IF s.dom[h].kind # "elem" THEN Throw(s)
    ELSE [s EXCEPT !.dom = [s.dom EXCEPT ![h].attrs = PutAttr(@, "style", v)],
                   !.ops = Append(@, [op |-> "setCssText", h |-> h, k |-> "style", v |-> v])]

\* element.setAttribute("class", strings.Join(tokens, " "))
SetClassTokens(s, h, tokens) ==
    IF ~s.ok THEN s
    ELSE IF ~Live(s, h) THEN Throw(s)
    ELSE IF s.dom[h].kind # "elem" THEN Throw(s)
    ELSE [s EXCEPT !.dom = [s.dom EXCEPT ![h].hasCls = TRUE, ![h].cls = tokens],
                   !.ops = Append(@, [op |-> "setClass", h |-> h, k |-> "class", toks |-> tokens])]

RemoveAttribute(s, h, k) ==
    IF ~s.ok THEN s
    ELSE IF ~Live(s, h) THEN Throw(s)
    ELSE IF s.dom[h].kind # "elem" THEN Throw(s)
    ELSE [s EXCEPT !.dom = IF k = "class"
                           THEN [s.dom EXCEPT ![h].hasCls = FALSE, ![h].cls = {}]
                           ELSE [s.dom EXCEPT ![h].attrs =
                                    [x \in DOMAIN @ \ {k} |-> @[x]]],
                   !.ops = Append(@, [op |-> "removeAttribute", h |-> h, k |-> k])]

SetTextContent(s, h, t) ==
    IF ~s.ok THEN s
    ELSE IF ~Live(s, h) THEN Throw(s)
    ELSE [s EXCEPT !.dom = [s.dom EXCEPT ![h].text = t],
                   !.ops = Append(@, [op |-> "setText", h |-> h, t |-> t])]

AddEventListener(s, h, e) ==
    IF ~s.ok THEN s
    ELSE IF ~Live(s, h) THEN Throw(s)
    ELSE [s EXCEPT !.dom = [s.dom EXCEPT ![h].listeners = @ \cup {e}],
                   !.ops = Append(@, [op |-> "addEventListener", h |-> h, e |-> e])]

\* element.Get("parentNode")
ParentNode(s, h) == IF Live(s, h) THEN s.dom[h].parent ELSE NoNode

\* ------------------------------------------------------------------------
\* Renderer: materialisation (createDomNode, processStyle)
\* ------------------------------------------------------------------------
\* state threaded through one renderer call:
\*   dom, nh   the DOM heap and the next handle the document hands out
\*   ops       DOM calls made, in order
\*   calls     Patch invocations made, in order
\*   ok        FALSE once a DOM call has panicked
\*   inj, css  injectedClasses and the text of the shared <style> element

\* Attribute values are Go values held in an interface{}: a string stands
\* for itself, "int(n)" and "bool(b)" name a value of another type.
\* fmt.Sprintf("%v", v):
GoSprintV(v) ==
    CASE v = "int(1)" -> "1"
      [] v = "int(2)" -> "2"
      [] v = "int(3)" -> "3"
      [] v = "bool(true)" -> "true"
      [] OTHER -> v

\* js.ValueOf(v) handed to setAttribute or cssText, which take its string
JsString(v) == IF v = NilVal THEN "null" ELSE GoSprintV(v)

\* variant: the CSS is appended whether or not the class is recorded
InjectStyle_Always(s, cn) ==
    [s EXCEPT !.inj = @ \cup {cn}, !.css = Append(@, cn)]

\* the injection block shared by processStyle and updateStyle: the CSS of a
\* class not yet in injectedClasses is appended to the style element's text
\* (css lists the class names whose CSS the text holds, in order)
InjectStyle(s, cn) ==
    IF cn \in s.inj THEN s
    ELSE [s EXCEPT !.inj = @ \cup {cn}, !.css = Append(@, cn)]

\* processStyle: inject the CSS once per class name, then set the class
processStyle(s, v) ==
    IF v.style = NoStyle THEN s
    ELSE SetAttribute(InjectStyle(s, GetClassName(v.style)), v.el, "class",
                      GetClassName(v.style))

RECURSIVE SetAttrsOnCreate(_, _, _, _)
SetAttrsOnCreate(s, h, attrs, keys) ==
    IF keys = {} THEN s
    ELSE LET k == CHOOSE x \in keys : TRUE
             s1 == IF k = "style" THEN SetCssText(s, h, JsString(attrs[k]))
                   ELSE SetAttribute(s, h, k, JsString(attrs[k]))
         IN SetAttrsOnCreate(s1, h, attrs, keys \ {k})

RECURSIVE AddListeners(_, _, _)
AddListeners(s, h, evs) ==
    IF evs = {} THEN s
    ELSE LET e == CHOOSE x \in evs : TRUE
         IN AddListeners(AddEventListener(s, h, e), h, evs \ {e})

RECURSIVE createDomNode(_, _)
RECURSIVE CreateChildren(_, _, _, _, _)
RECURSIVE CreateChildrenNext(_, _, _, _, _)

\* children of a created element: each child is created, and appended when
\* the created node is Truthy
CreateChildren(s, h, kids, i, acc) ==
    IF i > Len(kids) THEN [s |-> s, kids |-> acc]
    ELSE CreateChildrenNext(createDomNode(s, kids[i]), h, kids, i, acc)

\* r is what createDomNode(child) returned: append it when Truthy, go on
CreateChildrenNext(r, h, kids, i, acc) ==
    CreateChildren(IF r.node # NoNode THEN AppendChild(r.s, h, r.node) ELSE r.s,
                   h, kids, i + 1, Append(acc, r.v))

\* the element once its children are in place
ElementCreated(r, v1, h) == [s |-> r.s, v |-> [v1 EXCEPT !.children = r.kids], node |-> h]

\* createDomNode: returns the node and binds vnode.Element along the way
createDomNode(s, v) ==
    IF v = NilV THEN [s |-> s, v |-> v, node |-> NoNode]
    ELSE IF v.type = "Text" THEN
        LET s1 == CreateDomObject(s, "text", "", v.text)
        IN [s |-> s1, v |-> [v EXCEPT !.el = s.nh], node |-> s.nh]
    ELSE IF v.type = "Element" THEN
        LET h  == s.nh
            s1 == CreateDomObject(s, "elem", v.tag, "")
            v1 == [v EXCEPT !.el = h]
            s2 == SetAttrsOnCreate(s1, h, v.attrs, DOMAIN v.attrs)
            s3 == AddListeners(s2, h, v.events)
            s4 == processStyle(s3, v1)
        IN ElementCreated(CreateChildren(s4, h, v.children, 1, <<>>), v1, h)
    ELSE [s |-> s, v |-> v, node |-> NoNode]

\* ------------------------------------------------------------------------
\* Renderer: reconciliation (Patch, updateProps, updateStyle, patchChildren)
\* ------------------------------------------------------------------------
\* oldProps[key] of a Go map: the zero value when the key is missing
MapGet(m, k) == IF k \in DOMAIN m THEN m[k] ELSE NilVal

\* variant: every old key is removed, kept ones included
KeysToRemove_AllOld(oldProps, newProps) == DOMAIN oldProps

KeysToRemove(oldProps, newProps) == DOMAIN oldProps \ DOMAIN newProps

\* variant: every new key is written, no value comparison
KeysToSet_Blind(oldProps, newProps) == DOMAIN newProps

KeysToSet(oldProps, newProps) ==
    {k \in DOMAIN newProps : MapGet(oldProps, k) # newProps[k]}

RECURSIVE RemoveKeys(_, _, _)
RemoveKeys(s, h, keys) ==
    IF keys = {} THEN s
    ELSE LET k == CHOOSE x \in keys : TRUE
         IN RemoveKeys(RemoveAttribute(s, h, k), h, keys \ {k})

RECURSIVE SetKeys(_, _, _, _)
SetKeys(s, h, props, keys) ==
    IF keys = {} THEN s
    ELSE LET k == CHOOSE x \in keys : TRUE
         IN SetKeys(SetAttribute(s, h, k, GoSprintV(props[k])), h, props, keys \ {k})

updateProps(s, oldV, newV) ==
    LET s1 == RemoveKeys(s, newV.el, KeysToRemove(oldV.attrs, newV.attrs))
    IN SetKeys(s1, newV.el, newV.attrs, KeysToSet(oldV.attrs, newV.attrs))

\* element.Get("className") split into its tokens
ClassTokens(s, h) == IF Live(s, h) THEN s.dom[h].cls ELSE {}

\* the class token a style puts on an element, none for a nil style
StyleToken(st) == IF st = NoStyle THEN {} ELSE {GetClassName(st)}

\* variant: only the new style's token is written
StyleTokens_Reset(cur, oldStyle, newStyle) == StyleToken(newStyle)

\* classMap of updateStyle: the element's tokens, the old style's deleted,
\* the new style's added
StyleTokens(cur, oldStyle, newStyle) ==
    (cur \ StyleToken(oldStyle)) \cup StyleToken(newStyle)

updateStyle(s, oldV, newV) ==
    IF oldV.style = newV.style THEN s
    ELSE IF ~Live(s, newV.el) THEN Throw(s)
    ELSE SetClassTokens(IF newV.style # NoStyle
                        THEN InjectStyle(s, GetClassName(newV.style)) ELSE s,
                        newV.el,
                        StyleTokens(ClassTokens(s, newV.el), oldV.style, newV.style))

\* variant: the replacement test looks at the kind only
NeedsReplace_KindOnly(cur, new) == cur.type # new.type

\* the replacement test of Patch
NeedsReplace(cur, new) == cur.tag # new.tag \/ cur.type # new.type

\* variant: no deletion case
PatchCase_NoDelete(cur, new) ==
    IF cur = NilV /\ new # NilV THEN "create"
    ELSE IF cur = NilV \/ new = NilV THEN "none"
    ELSE IF NeedsReplace(cur, new) THEN "replace"
    ELSE "update"

\* the case of Patch a pair falls into, the tests taken in the order of the code
PatchCase(cur, new) ==
    IF cur = NilV /\ new # NilV THEN "create"
    ELSE IF cur # NilV /\ new = NilV THEN "delete"
    ELSE IF cur = NilV /\ new = NilV THEN "none"
    ELSE IF NeedsReplace(cur, new) THEN "replace"
    ELSE "update"

\* children[i] when it exists, nil otherwise (1-based here)
ChildAt(children, i) == IF i <= Len(children) THEN children[i] ELSE NilV

\* variant: the walk stops at the end of the new list
MaxLen_OfNew(oldChildren, newChildren) == Len(newChildren)

MaxLen(oldChildren, newChildren) ==
    IF Len(newChildren) > Len(oldChildren) THEN Len(newChildren) ELSE Len(oldChildren)

\* variant: the new node keeps its own (unbound) Element
CarriedElement_Own(cur, new) == new.el

\* the Element a same-kind, same-tag node inherits
CarriedElement(cur, new) == cur.el

RECURSIVE Patch(_, _, _, _)
RECURSIVE PatchChildrenFrom(_, _, _, _, _, _)
RECURSIVE PatchChildrenNext(_, _, _, _, _, _)

PatchChildrenFrom(s, parent, oldChildren, newChildren, i, acc) ==
    IF i > MaxLen(oldChildren, newChildren) THEN [s |-> s, kids |-> acc]
    ELSE PatchChildrenNext(Patch(s, parent, ChildAt(oldChildren, i), ChildAt(newChildren, i)),
                           parent, oldChildren, newChildren, i, acc)

\* r is what Patch returned for the pair at i: go on with the next index
PatchChildrenNext(r, parent, oldChildren, newChildren, i, acc) ==
    PatchChildrenFrom(r.s, parent, oldChildren, newChildren, i + 1,
                      IF i <= Len(newChildren) THEN Append(acc, r.v) ELSE acc)

patchChildren(s, oldV, newV) ==
    PatchChildrenFrom(s, newV.el, oldV.children, newV.children, 1, <<>>)

\* Cas 1: parent.appendChild(domNode), r what createDomNode returned
Appended(r, parent) == [s |-> AppendChild(r.s, parent, r.node), v |-> r.v]

\* Cas 4: parent.replaceChild(newDomNode, currentVNode.Element)
Replaced(r, parent, oldEl) == [s |-> ReplaceChild(r.s, parent, r.node, oldEl), v |-> r.v]

\* update in place: the new node with its children as patchChildren left them
Updated(r, v1) == [s |-> r.s, v |-> [v1 EXCEPT !.children = r.kids]]

\* Patch(parent, currentVNode, newVNode): returns the state and newVNode as
\* the call leaves it (Element bound)
Patch(s0, parent, cur, new) ==
    LET s == [s0 EXCEPT !.calls = Append(@, [parent |-> parent, old |-> cur, new |-> new])]
        c == PatchCase(cur, new)
    IN
    IF c = "create" THEN
        Appended(createDomNode(s, new), parent)
    ELSE IF c = "delete" THEN
        [s |-> RemoveChild(s, parent, cur.el), v |-> new]
    ELSE IF c = "none" THEN
        [s |-> s, v |-> new]
    ELSE IF c = "replace" THEN
        Replaced(createDomNode(s, new), parent, cur.el)
    ELSE
        LET v1 == [new EXCEPT !.el = CarriedElement(cur, new)]
        IN IF v1.type = "Text" THEN
               [s |-> IF cur.text # v1.text THEN SetTextContent(s, v1.el, v1.text) ELSE s,
                v |-> v1]
           ELSE
               LET s1 == updateProps(s, cur, v1)
                   s2 == updateStyle(s1, cur, v1)
               IN Updated(patchChildren(s2, cur, v1), v1)

\* ------------------------------------------------------------------------
\* Components
\* ------------------------------------------------------------------------
\* "ta" is a TextareaComponent, a struct embedding *StatefulComponentBase;
\* "fc" is a *FunctionalComponent; "app" is the App, embedding
\* *StatefulComponentBase as well.  The methods of the embedded base run
\* with the base as receiver: that pointer is what SetState hands on.
TaValues == {"a", "b"}
Mutators == {"flip", "toB"}
Mutate(m, v) == IF m = "toB" THEN "b" ELSE IF v = "a" THEN "b" ELSE "a"

ReceiverOfSetState(c) == IF c = "ta" THEN "taBase" ELSE IF c = "app" THEN "appBase" ELSE c

\* TextareaComponent.Render: attributes from the state, the value as a text child
TextareaRender(value) ==
    Elem("textarea", ("rows" :> "4") @@ ("cols" :> "50"), NoStyle, <<Txt(value)>>)

\* ComponentBase.Render of a base made by NewComponent(tag)
BaseRender(tag) == Elem(tag, EmptyAttrs, NoStyle, <<>>)

\* the renderFunc closure of the functional component (containerWithTag)
FcRenderFunc == Elem("section", EmptyAttrs, NoStyle, <<Txt("f")>>)

\* "box" is a *ComponentBase made by NewComponent("div") whose children are
\* component references (AddChildComponent); Render returns its vNode
BoxKids == {<<>>, <<"ta">>}
BoxRender(kids) == Elem("div", EmptyAttrs, NoStyle, [i \in DOMAIN kids |-> CompRef(kids[i])])

\* the button is a ButtonComponent made by Button("ok"): a
\* FunctionalComponent whose renderFunc reads the buttonType field
ButtonTypes == {"button", "submit", "reset"}

NewButton == [dirty |-> TRUE, cache |-> NilV, typ |-> "button"]

\* the renderFunc closure of Button
ButtonRenderFunc(typ) == Elem("button", ("type" :> typ), NoStyle, <<Txt("ok")>>)

\* FunctionalComponent.Render on the fields b of the button
ButtonRender(b) ==
    IF b.dirty THEN [b EXCEPT !.cache = ButtonRenderFunc(b.typ), !.dirty = FALSE]
    ELSE b

\* FunctionalComponent.Style(st): vnode := f.Render(); vnode.AppliedStyle = st
ButtonStyle(b, st) == [ButtonRender(b) EXCEPT !.cache.style = st]

\* ButtonComponent.Type(t) up to the hook call: the field is set, OnUpdate
\* marks the component dirty
ButtonType(b, t) == [b EXCEPT !.typ = t, !.dirty = TRUE]

\* "panel" is a *ComponentBase made by NewComponent("div") whose attributes
\* are set with SetAttr; Render returns its vNode, whose Attrs is the map
\* SetAttr writes to
PanelAttrs0 == ("a" :> "1")

PanelRender(attrs) == [Elem("div", attrs, NoStyle, <<>>) EXCEPT !.amap = "panel"]

\* "obs" is a component whose Render calls OnUpdate of the functional
\* component before it returns its tree
ObsTree == Elem("div", EmptyAttrs, NoStyle, <<Txt("o")>>)

ZeroCounts == [c \in {"app", "ta", "fc", "box", "obs", "panel"} |-> 0]

\* variant: renderFunc is invoked on every call
FcRender_Always(f) == [dirty |-> FALSE, cache |-> FcRenderFunc, gen |-> f.gen + 1]

\* FunctionalComponent.Render on the fields f of the component: renderFunc
\* is invoked when dirty, the result cached; gen counts the invocations and
\* so tells one returned VNode object from the next
FcRender(f) ==
    IF f.dirty THEN [dirty |-> FALSE, cache |-> FcRenderFunc, gen |-> f.gen + 1]
    ELSE f

\* cs threads what Render calls read and write: nid (next VNode allocation),
\* fc (dirty flag and cachedVNode), ta, app and box (component states), rc
\* (Render invocations counted per component), inv (components handed to
\* the invalidate hook from inside a Render)
RenderComp(c, cs) ==
    IF c = "ta" THEN
        [v |-> TextareaRender(cs.ta), cs |-> [cs EXCEPT !.rc["ta"] = @ + 1]]
    ELSE IF c = "fc" THEN
        [v |-> FcRender(cs.fc).cache,
         cs |-> [cs EXCEPT !.fc = FcRender(cs.fc), !.rc["fc"] = @ + 1]]
    ELSE IF c = "app" THEN
        [v |-> cs.app, cs |-> [cs EXCEPT !.rc["app"] = @ + 1]]
    ELSE IF c = "box" THEN
        [v |-> BoxRender(cs.box), cs |-> [cs EXCEPT !.rc["box"] = @ + 1]]
    ELSE IF c = "panel" THEN
        [v |-> PanelRender(cs.panel), cs |-> [cs EXCEPT !.rc["panel"] = @ + 1]]
    ELSE IF c = "obs" THEN
        [v |-> ObsTree,
         cs |-> [cs EXCEPT !.fc.dirty = TRUE, !.inv = @ \cup {"fc"}, !.rc["obs"] = @ + 1]]
    ELSE IF c = "taBase" THEN [v |-> BaseRender("textarea"), cs |-> cs]
    ELSE [v |-> BaseRender("div"), cs |-> cs]

\* ------------------------------------------------------------------------
\* Renderer: expansion and the component index
\* ------------------------------------------------------------------------
\* make([]*VNode, len(v.Children)): a slice of that many nil entries
MakeChildren(n) == [i \in 1..n |-> NilV]

RECURSIVE resolveComponents(_, _)
RECURSIVE ResolveKids(_, _, _, _)
RECURSIVE ResolveKidsNext(_, _, _, _)

ResolveKids(kids, i, acc, cs) ==
    IF i > Len(kids) THEN [kids |-> acc, cs |-> cs]
    ELSE ResolveKidsNext(resolveComponents(kids[i], cs), kids, i, acc)

\* out.Children = append(out.Children, r.resolveComponents(ch))
ResolveKidsNext(r, kids, i, acc) == ResolveKids(kids, i + 1, Append(acc, r.v), r.cs)

\* rendered.Component = v.Component, when the component rendered a tree
Tagged(r, comp) ==
    [v |-> IF r.v # NilV THEN [r.v EXCEPT !.comp = comp] ELSE NilV, cs |-> r.cs]

\* e is what the component's Render returned: expand it, tag the result
ResolveRendered(e, comp) == Tagged(resolveComponents(e.v, e.cs), comp)

\* the shallow clone with its children as the loop left them
Cloned(r, v, id) == [v |-> [v EXCEPT !.id = id, !.children = r.kids], cs |-> r.cs]

resolveComponents(v, cs) ==
    IF v = NilV THEN [v |-> NilV, cs |-> cs]
    ELSE IF v.type = "Component" /\ v.comp # NoComp THEN
        ResolveRendered(RenderComp(v.comp, cs), v.comp)
    ELSE
        Cloned(ResolveKids(v.children, 1, MakeChildren(Len(v.children)),
                           [cs EXCEPT !.nid = @ + 1]),
               v, cs.nid)

EmptyIndex == [c \in {} |-> NilV]

RECURSIVE IndexWalk(_, _)
RECURSIVE IndexWalkKids(_, _, _)

IndexWalkKids(kids, i, idx) ==
    IF i > Len(kids) THEN idx
    ELSE IndexWalkKids(kids, i + 1, IndexWalk(kids[i], idx))

\* the walk shared by buildComponentIndex and reindexComponentBranch
IndexWalk(v, idx) ==
    IF v = NilV THEN idx
    ELSE LET idx1 == IF v.comp # NoComp THEN (v.comp :> v) @@ idx ELSE idx
         IN IndexWalkKids(v.children, 1, idx1)

buildComponentIndex(v) == IndexWalk(v, EmptyIndex)

reindexComponentBranch(v, idx) == IndexWalk(v, idx)

\* f when it is an object, rest otherwise
FirstFound(f, rest) == IF f # NilV THEN f ELSE rest

RECURSIVE FindById(_, _)
RECURSIVE FindInKids(_, _, _)

FindInKids(kids, i, id) ==
    IF i > Len(kids) THEN NilV
    ELSE FirstFound(FindById(kids[i], id), FindInKids(kids, i + 1, id))

\* the object with this pointer identity, if the tree holds it
FindById(v, id) ==
    IF v = NilV THEN NilV
    ELSE IF v.id = id THEN v
    ELSE FindInKids(v.children, 1, id)

\* the index holds pointers: an entry whose object is in the tree shows the
\* object as the tree has it now; any other entry keeps its detached object
Repoint(idx, tree) ==
    [c \in DOMAIN idx |-> FirstFound(FindById(tree, idx[c].id), idx[c])]

RECURSIVE replaceSubtree(_, _, _)
RECURSIVE ReplaceInKids(_, _, _, _)
RECURSIVE ReplaceInKidsNext(_, _, _, _, _)

ReplaceInKids(kids, i, oldSub, newSub) ==
    IF i > Len(kids) THEN [found |-> FALSE, kids |-> kids]
    ELSE IF kids[i] # NilV /\ kids[i].id = oldSub.id THEN
        [found |-> TRUE, kids |-> [kids EXCEPT ![i] = newSub]]
    ELSE ReplaceInKidsNext(replaceSubtree(kids[i], oldSub, newSub), kids, i, oldSub, newSub)

\* r is what replaceSubtree(child) returned: stop when it replaced, go on otherwise
ReplaceInKidsNext(r, kids, i, oldSub, newSub) ==
    IF r.found THEN [found |-> TRUE, kids |-> [kids EXCEPT ![i] = r.v]]
    ELSE ReplaceInKids(kids, i + 1, oldSub, newSub)

WithKids(r, root) == [found |-> r.found, v |-> [root EXCEPT !.children = r.kids]]

replaceSubtree(root, oldSub, newSub) ==
    IF root = NilV THEN [found |-> FALSE, v |-> root]
    ELSE WithKids(ReplaceInKids(root.children, 1, oldSub, newSub), root)

\* Renderer.Render
\* r.currentVNode = expanded, p what Patch returned
RenderPatched(p, cs, idx) == [s |-> p.s, cs |-> cs, cur |-> p.v, idx |-> Repoint(idx, p.v)]

\* e is what resolveComponents returned: index it, patch it against the current tree
RenderExpanded(s, e, cur) ==
    RenderPatched(Patch(s, Container, cur, e.v), e.cs, buildComponentIndex(e.v))

RendererRender(s, cs, cur, newVNode) == RenderExpanded(s, resolveComponents(newVNode, cs), cur)

\* filterDirtyRoots: every dirty entry is its own root
filterDirtyRoots(dirty) == dirty

\* the renderer after replaceSubtree and reindexComponentBranch
FlushReplaced(p, cs, cur1, idx1, n) ==
    [s |-> p.s, cs |-> cs, cur |-> cur1, idx |-> Repoint(idx1, cur1), n |-> n + 1]

\* p is what Patch(parent, oldSub, newSub) returned
FlushPatched(st, oldSub, p, cs) ==
    FlushReplaced(p, cs, replaceSubtree(st.cur, oldSub, p.v).v,
                  reindexComponentBranch(p.v, st.idx), st.n)

\* e is newSub, the expansion of comp.Render()
FlushExpanded(st, oldSub, e) ==
    FlushPatched(st, oldSub, Patch(st.s, ParentNode(st.s, oldSub.el), oldSub, e.v), e.cs)

\* rc is what comp.Render() returned
FlushRendered(st, oldSub, rc) == FlushExpanded(st, oldSub, resolveComponents(rc.v, rc.cs))

\* one iteration of the loop of flushDirty
FlushOne(st, comp) ==
    LET oldSub == IF comp \in DOMAIN st.idx THEN st.idx[comp] ELSE NilV
    IN IF oldSub = NilV THEN st
       ELSE IF oldSub.el = NoNode THEN st
       ELSE FlushRendered(st, oldSub, RenderComp(comp, st.cs))

RECURSIVE FlushLoop(_, _, _)
FlushLoop(st, order, i) ==
    IF i > Len(order) \/ ~st.s.ok THEN st
    ELSE FlushLoop(FlushOne(st, order[i]), order, i + 1)

\* flushDirty, the roots taken in the given order (a Go map ranges in any order)
flushDirty(s, cs, cur, idx, order) ==
    FlushLoop([s |-> s, cs |-> cs, cur |-> cur, idx |-> idx, n |-> 0], order, 1)

\* ------------------------------------------------------------------------
\* Inputs: the trees a render function can return
\* ------------------------------------------------------------------------
Leaves == {Txt("a"), Txt("b")}

KidLists == UNION {[1..k -> Leaves] : k \in 0..MaxKids}

\* child lists in which neighbours differ
AltKidLists == {ks \in KidLists : \A i \in 1..(Len(ks) - 1) : ks[i] # ks[i + 1]}

Div(kids) == Elem("div", EmptyAttrs, NoStyle, kids)

ListTrees == {Div(ks) : ks \in KidLists}

AttrTrees == {Elem("div", m, NoStyle, <<Txt("a")>>) :
                m \in {("a" :> "1"), ("a" :> "int(1)"), ("a" :> "1") @@ ("b" :> "bool(true)")}}

StyleTrees == {Elem("div", EmptyAttrs, st, <<Txt("a")>>) : st \in StyleObjs}

Para == Elem("p", EmptyAttrs, NoStyle, <<Txt("a")>>)

ShapeTrees == {Txt("a"), Txt("b"),
               Elem("span", EmptyAttrs, NoStyle, <<Txt("a")>>),
               Div(<<Para, Txt("b")>>),
               Elem("span", EmptyAttrs, NoStyle, <<Para, Txt("b")>>)}

DefaultTree == Div(<<CompRef("ta"), CompRef("fc")>>)

CompTrees == {DefaultTree, Div(<<CompRef("ta")>>), Div(<<Txt("a"), CompRef("fc")>>)}

\* two components' elements, styled by two Style objects of equal content
TwinTree == Div(<<Elem("p", EmptyAttrs, "s1", <<>>), Elem("p", EmptyAttrs, "s3", <<>>)>>)

\* trees handed to Patch directly (already expanded)
PatchTrees == ListTrees \cup AttrTrees \cup StyleTrees \cup ShapeTrees \cup {TwinTree}

\* trees the root render function returns
AppTrees == {Div(ks) : ks \in AltKidLists} \cup CompTrees
              \cup {Txt("a"), Elem("div", ("a" :> "1"), NoStyle, <<Txt("a")>>)}

\* ------------------------------------------------------------------------
\* State
\* ------------------------------------------------------------------------
VARIABLES
    dom, nh,            \* the document: nodes by handle, next handle
    inj, css,           \* Renderer.injectedClasses, text of the <style> element
    ok,                 \* FALSE once the program has panicked
    currentVNode,       \* Renderer.currentVNode
    compIndex,          \* Renderer.compIndex
    dirtySet,           \* Renderer.dirtySet
    rafScheduled,       \* Renderer.rafScheduled
    pending,            \* requestAnimationFrame callbacks not yet fired
    invalidator,        \* what the package-level invalidate hook does
    mounted,            \* App.mounted
    appState, taState,  \* state of the App and of the textarea component
    fc,                 \* dirty flag and cachedVNode of the functional component
    box,                \* child components of the box component
    panelAttrs,         \* vNode.Attrs of the panel component
    btn,                \* the button: dirty flag, cachedVNode, buttonType
    nid,                \* next VNode allocation
    last,               \* what the last operation did
    tick,               \* SetState calls and their servicing since the last frame
    cnt                 \* operations made so far

vars == <<dom, nh, inj, css, rangeOrder, box, panelAttrs, btn, ok, currentVNode, compIndex, dirtySet, rafScheduled,
          pending, invalidator, mounted, appState, taState, fc, nid, last, tick, cnt>>

S0 == [dom |-> dom, nh |-> nh, ops |-> <<>>, calls |-> <<>>, ok |-> ok,
       inj |-> inj, css |-> css]

Cs0 == [nid |-> nid, fc |-> fc, ta |-> taState, app |-> appState, box |-> box,
        panel |-> panelAttrs, rc |-> ZeroCounts, inv |-> {}]

Kids0 == dom[Container].children

LastOf(op, comp, s, rc, top) ==
    [op |-> op, prevOp |-> last.op, comp |-> comp, ops |-> s.ops, calls |-> s.calls,
     rc |-> rc, top |-> top, kids0 |-> Kids0, kidsPrev0 |-> last.kids0, nh0 |-> nh,
     arg |-> NilVal, inv |-> {}]

NoLast == [op |-> "init", prevOp |-> "init", comp |-> NoComp, ops |-> <<>>, calls |-> <<>>,
           rc |-> ZeroCounts, top |-> 0, kids0 |-> <<>>, kidsPrev0 |-> <<>>, nh0 |-> 1,
           arg |-> NilVal, inv |-> {}]

FreshTick == [sets |-> 0, renders |-> 0, patches |-> 0, served |-> FALSE,
              clean |-> TRUE, mounted |-> TRUE]

\* an operation other than SetState/UpdateState on the textarea falls into the tick
Disturb(t) == IF t.sets = 0 \/ t.served THEN FreshTick ELSE [t EXCEPT !.clean = FALSE]

NoCnt == [sets |-> 0, appSets |-> 0, patches |-> 0, renders |-> 0]

Init ==
    /\ dom = InitDom /\ nh = 1
    /\ rangeOrder = NoRange
    /\ inj = {} /\ css = <<>>
    /\ ok = TRUE
    /\ currentVNode = NilV
    /\ compIndex = EmptyIndex
    /\ dirtySet = {}
    /\ rafScheduled = FALSE /\ pending = 0
    /\ invalidator \in {"app", "raf"}
    /\ mounted = FALSE
    /\ appState = DefaultTree
    /\ taState = "a"
    /\ fc = [dirty |-> TRUE, cache |-> NilV, gen |-> 0]
    /\ box = <<"ta">>
    /\ panelAttrs = PanelAttrs0
    /\ btn = NewButton
    /\ nid = 1
    /\ last = NoLast
    /\ tick = FreshTick
    /\ cnt = NoCnt

\* app.renderer.Render(a.v), a what app.Render() returned
AppRender(a) == RendererRender(S0, a.cs, currentVNode, a.v)

HookRendered(r) ==
    [s |-> r.s, cs |-> r.cs, cur |-> r.cur, idx |-> r.idx,
     dirty |-> dirtySet, raf |-> rafScheduled, pend |-> pending, top |-> 1]

\* variant: a callback is requested on every Invalidate
ScheduleFrame_Always(raf, pend) == pend + 1

\* if !r.rafScheduled { ...requestAnimationFrame(...) }: the callbacks
\* pending after an Invalidate that found the flag raf and pend of them
ScheduleFrame(raf, pend) == IF raf THEN pend ELSE pend + 1

\* the flag and the pending callbacks after Invalidate was called for
\* every component of inv
Invalidated(raf, pend, inv) ==
    IF inv = {} THEN [raf |-> raf, pend |-> pend]
    ELSE [raf |-> TRUE, pend |-> ScheduleFrame(raf, pend)]

\* the components Render calls handed to Renderer.Invalidate
HookCalls(inv) == IF invalidator = "raf" THEN inv ELSE {}

\* the effect of a call of the invalidate hook with component c, the
\* component states being those of cs:
\*   "none": the hook is nil (SetInvalidator was never called)
\*   "app": the hook set by app.New, app.renderer.Render(app.Render())
\*   "raf": the hook bound to Renderer.Invalidate
Hook(c, cs) ==
    IF invalidator = "none" THEN
        [s |-> S0, cs |-> cs, cur |-> currentVNode, idx |-> compIndex,
         dirty |-> dirtySet, raf |-> rafScheduled, pend |-> pending, top |-> 0]
    ELSE IF invalidator = "app" THEN
        HookRendered(AppRender(RenderComp("app", cs)))
    ELSE
        [s |-> S0, cs |-> cs, cur |-> currentVNode, idx |-> compIndex,
         dirty |-> dirtySet \cup {c}, raf |-> TRUE,
         pend |-> ScheduleFrame(rafScheduled, pending), top |-> 0]

\* the part of the state a renderer call leaves behind
Commit(r) ==
    /\ dom' = r.s.dom /\ nh' = r.s.nh
    /\ inj' = r.s.inj /\ css' = r.s.css
    /\ ok' = r.s.ok
    /\ currentVNode' = r.cur
    /\ compIndex' = r.idx
    /\ fc' = r.cs.fc
    /\ nid' = r.cs.nid

\* a renderer call made by operation op leaves r behind
CommitAs(r, op, comp, top) ==
    /\ Commit(r)
    /\ last' = LastOf(op, comp, r.s, r.cs.rc, top)

\* a call of the invalidate hook made by operation op leaves r behind
AfterHook(r, op, comp) ==
    /\ Commit(r)
    /\ dirtySet' = r.dirty /\ rafScheduled' = r.raf /\ pending' = r.pend
    /\ last' = LastOf(op, comp, r.s, r.cs.rc, r.top)

\* App.Mount
Mount ==
    /\ ok /\ ~mounted
    /\ mounted' = TRUE
    /\ CommitAs(AppRender(RenderComp("app", Cs0)), "Mount", NoComp, 1)
    /\ tick' = Disturb(tick)
    /\ UNCHANGED <<dirtySet, rafScheduled, pending, invalidator, rangeOrder, box, panelAttrs, btn, appState, taState, cnt>>

\* App.SetState(t): StatefulComponentBase.SetState on the App's base
AppSetState(t) ==
    /\ ok /\ cnt.appSets < MaxAppSets
    /\ appState' = t
    /\ AfterHook(Hook(ReceiverOfSetState("app"), [Cs0 EXCEPT !.app = t]),
                 "AppSetState", ReceiverOfSetState("app"))
    /\ tick' = Disturb(tick)
    /\ cnt' = [cnt EXCEPT !.appSets = @ + 1]
    /\ UNCHANGED <<invalidator, rangeOrder, box, panelAttrs, btn, mounted, taState>>

TickAfterSet(r) ==
    LET t0 == IF tick.served THEN FreshTick ELSE tick
    IN [t0 EXCEPT !.sets = @ + 1,
                  !.renders = @ + r.cs.rc["ta"],
                  !.patches = @ + r.top,
                  !.mounted = @ /\ "ta" \in DOMAIN compIndex]

\* SetState on the textarea: the hook's effect, counted into the tick; arg
\* is the argument the caller passed
AfterTaSet(r, op, arg) ==
    /\ Commit(r)
    /\ dirtySet' = r.dirty /\ rafScheduled' = r.raf /\ pending' = r.pend
    /\ last' = [LastOf(op, ReceiverOfSetState("ta"), r.s, r.cs.rc, r.top) EXCEPT !.arg = arg]
    /\ tick' = TickAfterSet(r)

\* StatefulComponentBase.SetState(v) on the textarea, reached through op
SetStateAs(v, op, arg) ==
    /\ ok /\ cnt.sets < MaxSets
    /\ taState' = v
    /\ AfterTaSet(Hook(ReceiverOfSetState("ta"), [Cs0 EXCEPT !.ta = v]), op, arg)
    /\ cnt' = [cnt EXCEPT !.sets = @ + 1]
    /\ UNCHANGED <<invalidator, rangeOrder, box, panelAttrs, btn, mounted, appState>>

\* StatefulComponentBase.SetState(v) called on the textarea
TaSetState(v) == SetStateAs(v, "SetState", v)

\* variant: the mutator's result is dropped
UpdatedState_Stale(m, state) == state

\* newState := mutator(c.state)
UpdatedState(m, state) == Mutate(m, state)

\* StatefulComponentBase.UpdateState(mutator) called on the textarea
TaUpdateState(m) == SetStateAs(UpdatedState(m, taState), "UpdateState", m)

\* FunctionalComponent.OnUpdate
FcOnUpdate ==
    /\ ok /\ cnt.sets < MaxSets
    /\ AfterHook(Hook("fc", [Cs0 EXCEPT !.fc.dirty = TRUE]), "OnUpdate", "fc")
    /\ tick' = Disturb(tick)
    /\ cnt' = [cnt EXCEPT !.sets = @ + 1]
    /\ UNCHANGED <<invalidator, rangeOrder, box, panelAttrs, btn, mounted, appState, taState>>

\* Renderer.Invalidate(c) called on the renderer itself
Invalidate(c) ==
    /\ ok /\ invalidator = "raf" /\ cnt.sets < MaxSets
    /\ c \notin dirtySet
    /\ dirtySet' = dirtySet \cup {c}
    /\ rafScheduled' = TRUE
    /\ pending' = ScheduleFrame(rafScheduled, pending)
    /\ last' = LastOf("Invalidate", c, S0, ZeroCounts, 0)
    /\ tick' = Disturb(tick)
    /\ cnt' = [cnt EXCEPT !.sets = @ + 1]
    /\ UNCHANGED <<dom, nh, inj, css, ok, currentVNode, compIndex, invalidator, rangeOrder, box, panelAttrs, btn, mounted,
                   appState, taState, fc, nid>>

\* flushDirty leaves r behind
AfterFlush(r) ==
    /\ Commit(r)
    /\ last' = [LastOf("Frame", NoComp, r.s, r.cs.rc, r.n) EXCEPT !.inv = HookCalls(r.cs.inv)]
    /\ rafScheduled' = Invalidated(FALSE, pending - 1, HookCalls(r.cs.inv)).raf
    /\ pending' = Invalidated(FALSE, pending - 1, HookCalls(r.cs.inv)).pend
    /\ tick' = [tick EXCEPT !.renders = @ + r.cs.rc["ta"],
                            !.patches = @ + r.n,
                            !.served = TRUE]

\* the animation-frame callback scheduled by Invalidate
Frame ==
    /\ ok /\ pending > 0
    /\ \E order \in Orders(filterDirtyRoots(dirtySet)) :
         AfterFlush(flushDirty(S0, Cs0, currentVNode, compIndex, order))
    /\ dirtySet' = IF ok' THEN {} ELSE dirtySet
    /\ UNCHANGED <<invalidator, rangeOrder, box, panelAttrs, btn, mounted, appState, taState, cnt>>

Next ==
    \/ Mount
    \/ \E t \in AppTrees : AppSetState(t)
    \/ \E v \in TaValues : TaSetState(v)
    \/ \E m \in Mutators : TaUpdateState(m)
    \/ FcOnUpdate
    \/ \E c \in {"ta", "fc"} : Invalidate(c)
    \/ Frame

Spec == Init /\ [][Next]_vars

\* the stateful component alone: the App is mounted, the textarea's state is
\* set and updated, frames fire when asked for
NextState ==
    \/ Mount
    \/ \E v \in TaValues : TaSetState(v)
    \/ \E m \in Mutators : TaUpdateState(m)
    \/ Frame

SpecState == Init /\ [][NextState]_vars

\* ------------------------------------------------------------------------
\* A renderer used on its own: NewRenderer, then Render calls with the trees
\* of the caller; no invalidation hook is installed
\* ------------------------------------------------------------------------
InitRender ==
    /\ dom = InitDom /\ nh = 1
    /\ rangeOrder = NoRange
    /\ inj = {} /\ css = <<>>
    /\ ok = TRUE
    /\ currentVNode = NilV
    /\ compIndex = EmptyIndex
    /\ dirtySet = {}
    /\ rafScheduled = FALSE /\ pending = 0
    /\ invalidator = "none"
    /\ mounted = FALSE
    /\ appState = DefaultTree
    /\ taState = "a"
    /\ fc = [dirty |-> TRUE, cache |-> NilV, gen |-> 0]
    /\ box = <<"ta">>
    /\ panelAttrs = PanelAttrs0
    /\ btn = NewButton
    /\ nid = 1
    /\ last = NoLast
    /\ tick = FreshTick
    /\ cnt = NoCnt

\* Render leaves r behind; the Invalidate calls made from inside it count
AfterRender(r) ==
    /\ CommitAs(r, "Render", NoComp, 1)
    /\ dirtySet' = dirtySet \cup HookCalls(r.cs.inv)
    /\ rafScheduled' = Invalidated(rafScheduled, pending, HookCalls(r.cs.inv)).raf
    /\ pending' = Invalidated(rafScheduled, pending, HookCalls(r.cs.inv)).pend

\* Renderer.Render(t)
RenderTree(t) ==
    /\ ok /\ cnt.renders < MaxRenders
    /\ AfterRender(RendererRender(S0, Cs0, currentVNode, t))
    /\ tick' = Disturb(tick)
    /\ cnt' = [cnt EXCEPT !.renders = @ + 1]
    /\ UNCHANGED <<invalidator, rangeOrder, box, panelAttrs, btn, mounted, appState, taState>>

NextRender ==
    \/ \E t \in AppTrees : RenderTree(t)
    \/ \E v \in TaValues : TaSetState(v)
    \/ FcOnUpdate

SpecRender == InitRender /\ [][NextRender]_vars

\* ------------------------------------------------------------------------
\* A renderer whose Invalidate is the invalidation hook
\* (SetInvalidator(r.Invalidate)): full renders of trees holding components,
\* state changes, and the frames Invalidate asks for
\* ------------------------------------------------------------------------
BoxTree == Div(<<CompRef("box"), CompRef("fc")>>)

FrameTrees == {DefaultTree, BoxTree, Div(<<CompRef("fc")>>)}

InitFrame ==
    /\ dom = InitDom /\ nh = 1
    /\ rangeOrder = NoRange
    /\ inj = {} /\ css = <<>>
    /\ ok = TRUE
    /\ currentVNode = NilV
    /\ compIndex = EmptyIndex
    /\ dirtySet = {}
    /\ rafScheduled = FALSE /\ pending = 0
    /\ invalidator = "raf"
    /\ mounted = FALSE
    /\ appState = DefaultTree
    /\ taState = "a"
    /\ fc = [dirty |-> TRUE, cache |-> NilV, gen |-> 0]
    /\ box = <<"ta">>
    /\ panelAttrs = PanelAttrs0
    /\ btn = NewButton
    /\ nid = 1
    /\ last = NoLast
    /\ tick = FreshTick
    /\ cnt = NoCnt

\* ComponentBase.ClearChildren / AddChildComponent on the box
BoxSetChildren(k) ==
    /\ ok /\ k # box
    /\ box' = k
    /\ last' = LastOf("BoxSetChildren", "box", S0, ZeroCounts, 0)
    /\ tick' = Disturb(tick)
    /\ UNCHANGED <<dom, nh, inj, css, ok, currentVNode, compIndex, dirtySet, rafScheduled, pending,
                   invalidator, rangeOrder, panelAttrs, btn, mounted, appState, taState, fc, nid, cnt>>

NextFrame ==
    \/ \E t \in FrameTrees : RenderTree(t)
    \/ \E v \in TaValues : TaSetState(v)
    \/ FcOnUpdate
    \/ \E k \in BoxKids : BoxSetChildren(k)
    \/ \E c \in {"ta", "fc", "box"} : Invalidate(c)
    \/ Frame

SpecFrame == InitFrame /\ [][NextFrame]_vars

\* ------------------------------------------------------------------------
\* The same renderer given trees that hold a component reference at the
\* root, a reference whose Component is nil, and a component (the App)
\* whose Render returns a component reference
\* ------------------------------------------------------------------------
NilRef == CompRef(NoComp)

ExpandTrees == {CompRef("ta"), Div(<<NilRef, Txt("a")>>), Div(<<CompRef("app")>>), BoxTree}

InitExpand ==
    /\ dom = InitDom /\ nh = 1
    /\ rangeOrder = NoRange
    /\ inj = {} /\ css = <<>>
    /\ ok = TRUE
    /\ currentVNode = NilV
    /\ compIndex = EmptyIndex
    /\ dirtySet = {}
    /\ rafScheduled = FALSE /\ pending = 0
    /\ invalidator = "raf"
    /\ mounted = FALSE
    /\ appState = CompRef("ta")
    /\ taState = "a"
    /\ fc = [dirty |-> TRUE, cache |-> NilV, gen |-> 0]
    /\ box = <<"ta">>
    /\ panelAttrs = PanelAttrs0
    /\ btn = NewButton
    /\ nid = 1
    /\ last = NoLast
    /\ tick = FreshTick
    /\ cnt = NoCnt

NextExpand ==
    \/ \E t \in ExpandTrees : RenderTree(t)
    \/ \E v \in TaValues : TaSetState(v)
    \/ \E c \in {"ta", "app", "box"} : Invalidate(c)
    \/ Frame

SpecExpand == InitExpand /\ [][NextExpand]_vars

\* ------------------------------------------------------------------------
\* The same renderer with a component that invalidates another one from
\* inside its Render
\* ------------------------------------------------------------------------
ObsTrees == {Div(<<CompRef("obs"), CompRef("fc")>>), Div(<<CompRef("fc")>>)}

NextRaf ==
    \/ \E t \in ObsTrees : RenderTree(t)
    \/ FcOnUpdate
    \/ \E c \in {"obs", "fc"} : Invalidate(c)
    \/ Frame

SpecRaf == InitFrame /\ [][NextRaf]_vars

\* ------------------------------------------------------------------------
\* The same renderer with a ComponentBase whose attributes are changed in
\* place between renders
\* ------------------------------------------------------------------------
PanelTrees == {Div(<<CompRef("panel")>>), Div(<<CompRef("panel"), CompRef("fc")>>)}

AttrValues == {"1", "2", "3"}

RECURSIVE ShareAttrs(_, _, _)
\* the tree as it reads once the Attrs map of component owner holds m:
\* every node whose Attrs field points to that map shows m
ShareAttrs(v, owner, m) ==
    IF v = NilV THEN v
    ELSE [v EXCEPT !.attrs = IF v.amap = owner THEN m ELSE @,
                   !.children = [i \in DOMAIN v.children |->
                                    ShareAttrs(v.children[i], owner, m)]]

\* ComponentBase.SetAttr("a", val) on the panel: c.vNode.Attrs[key] = value
PanelSetAttr(val) ==
    /\ ok /\ panelAttrs["a"] # val
    /\ panelAttrs' = PutAttr(panelAttrs, "a", val)
    /\ currentVNode' = ShareAttrs(currentVNode, "panel", PutAttr(panelAttrs, "a", val))
    /\ compIndex' = [c \in DOMAIN compIndex |->
                        ShareAttrs(compIndex[c], "panel", PutAttr(panelAttrs, "a", val))]
    /\ last' = [LastOf("SetAttr", "panel", S0, ZeroCounts, 0) EXCEPT !.arg = val]
    /\ tick' = Disturb(tick)
    /\ UNCHANGED <<dom, nh, inj, css, ok, dirtySet, rafScheduled, pending, invalidator,
                   rangeOrder, box, btn, mounted, appState, taState, fc, nid, cnt>>

NextAttr ==
    \/ \E t \in PanelTrees : RenderTree(t)
    \/ \E val \in AttrValues : PanelSetAttr(val)
    \/ \E c \in {"panel", "fc"} : Invalidate(c)
    \/ Frame

SpecAttr == InitFrame /\ [][NextAttr]_vars

\* ------------------------------------------------------------------------
\* A button used through its fluent methods: Style, Type and Render calls
\* in any order (no invalidation hook is installed)
\* ------------------------------------------------------------------------
\* a call on the button that makes no renderer call leaves b behind
ButtonCall(b, op, arg) ==
    /\ ok
    /\ btn' = b
    /\ last' = [LastOf(op, "btn", S0, ZeroCounts, 0) EXCEPT !.arg = arg]
    /\ tick' = Disturb(tick)
    /\ UNCHANGED <<dom, nh, inj, css, ok, currentVNode, compIndex, dirtySet, rafScheduled,
                   pending, invalidator, rangeOrder, box, panelAttrs, mounted, appState,
                   taState, fc, nid, cnt>>

\* b.Style(st)
BtnStyle(st) == ButtonCall(ButtonStyle(btn, st), "Style", st)

\* b.Render()
BtnRender == ButtonCall(ButtonRender(btn), "ButtonRender", NilVal)

\* b.Type(t): OnUpdate calls the invalidate hook with the component
BtnType(t) ==
    /\ ok /\ cnt.sets < MaxSets
    /\ btn' = ButtonType(btn, t)
    /\ AfterHook(Hook("btn", Cs0), "Type", "btn")
    /\ tick' = Disturb(tick)
    /\ cnt' = [cnt EXCEPT !.sets = @ + 1]
    /\ UNCHANGED <<invalidator, rangeOrder, box, panelAttrs, mounted, appState, taState>>

NextButton ==
    \/ \E st \in StyleObjs : BtnStyle(st)
    \/ \E t \in ButtonTypes : BtnType(t)
    \/ BtnRender

SpecButton == InitRender /\ [][NextButton]_vars

\* ------------------------------------------------------------------------
\* Patch called directly on a parent element with trees that hold no
\* component reference (what pkg/renderer's Render does with its argument)
\* ------------------------------------------------------------------------
ForeignDom(k) ==
    [h \in 0..k |->
        IF h = Container
        THEN [NewDomNode("elem", "container", "") EXCEPT !.children = [i \in 1..k |-> i]]
        ELSE [NewDomNode("elem", "foreign", "") EXCEPT !.parent = Container]]

InitPatch ==
    /\ \E k \in 0..MaxForeign : dom = ForeignDom(k) /\ nh = k + 1
    /\ rangeOrder \in RangeOrders
    /\ inj = {} /\ css = <<>>
    /\ ok = TRUE
    /\ currentVNode = NilV
    /\ compIndex = EmptyIndex
    /\ dirtySet = {}
    /\ rafScheduled = FALSE /\ pending = 0
    /\ invalidator = "none"
    /\ mounted = FALSE
    /\ appState = DefaultTree
    /\ taState = "a"
    /\ fc = [dirty |-> TRUE, cache |-> NilV, gen |-> 0]
    /\ box = <<"ta">>
    /\ panelAttrs = PanelAttrs0
    /\ btn = NewButton
    /\ nid = 1
    /\ last = [NoLast EXCEPT !.nh0 = nh]
    /\ tick = FreshTick
    /\ cnt = NoCnt

\* a direct Patch call leaves r behind
AfterPatch(r, op) ==
    /\ dom' = r.s.dom /\ nh' = r.s.nh
    /\ inj' = r.s.inj /\ css' = r.s.css
    /\ ok' = r.s.ok
    /\ currentVNode' = r.v
    /\ last' = LastOf(op, NoComp, r.s, ZeroCounts, 1)

\* Patch(container, currentVNode, new), the result kept as the current tree
DirectPatch(op, new) ==
    /\ ok /\ cnt.patches < MaxPatches
    /\ AfterPatch(Patch(S0, Container, currentVNode, new), op)
    /\ cnt' = [cnt EXCEPT !.patches = @ + 1]
    /\ UNCHANGED <<compIndex, dirtySet, rafScheduled, pending, invalidator, rangeOrder, box, panelAttrs, btn, mounted, appState,
                   taState, fc, nid, tick>>

PatchCreate(v) == currentVNode = NilV /\ DirectPatch("PatchCreate", v)

PatchUpdate(v) == currentVNode # NilV /\ DirectPatch("PatchUpdate", v)

PatchDelete == currentVNode # NilV /\ DirectPatch("PatchDelete", NilV)

PatchNone == currentVNode = NilV /\ DirectPatch("PatchNone", NilV)

NextPatch ==
    \/ \E v \in PatchTrees : PatchCreate(v)
    \/ \E v \in PatchTrees : PatchUpdate(v)
    \/ PatchDelete
    \/ PatchNone

SpecPatch == InitPatch /\ [][NextPatch]_vars

\* ------------------------------------------------------------------------
\* The same calls made on the Patch of pkg/renderer
\* ------------------------------------------------------------------------
\* the case of pkg/renderer's Patch a pair falls into: after the creation and
\* deletion tests the code reads currentVNode.Tag
PkgPatchCase(cur, new) ==
    IF cur = NilV /\ new # NilV THEN "create"
    ELSE IF cur # NilV /\ new = NilV THEN "delete"
    ELSE IF cur = NilV THEN "nilderef"
    ELSE IF NeedsReplace(cur, new) THEN "replace"
    ELSE "update"

\* pkg/renderer's Patch: a nil dereference panics; the other cases are those
\* of core/renderer's Patch
PkgPatch(s, parent, cur, new) ==
    IF PkgPatchCase(cur, new) = "nilderef" THEN [s |-> Throw(s), v |-> new]
    ELSE Patch(s, parent, cur, new)

DirectPkgPatch(op, new) ==
    /\ ok /\ cnt.patches < MaxPatches
    /\ AfterPatch(PkgPatch(S0, Container, currentVNode, new), op)
    /\ cnt' = [cnt EXCEPT !.patches = @ + 1]
    /\ UNCHANGED <<compIndex, dirtySet, rafScheduled, pending, invalidator, rangeOrder, box, panelAttrs, btn, mounted,
                   appState, taState, fc, nid, tick>>

NextPkgPatch ==
    \/ \E v \in PatchTrees : currentVNode = NilV /\ DirectPkgPatch("PatchCreate", v)
    \/ \E v \in PatchTrees : currentVNode # NilV /\ DirectPkgPatch("PatchUpdate", v)
    \/ currentVNode # NilV /\ DirectPkgPatch("PatchDelete", NilV)
    \/ currentVNode = NilV /\ DirectPkgPatch("PatchNone", NilV)

SpecPkgPatch == InitPatch /\ [][NextPkgPatch]_vars

\* ------------------------------------------------------------------------
\* updateProps on its own: one element carrying any attribute map, updated
\* to any other
\* ------------------------------------------------------------------------
\* a document holding the empty container only
EmptyDoc == [dom |-> InitDom, nh |-> 1, ops |-> <<>>, calls |-> <<>>, ok |-> TRUE,
             inj |-> {}, css |-> <<>>]

AttrKeys == {"a", "b", "c"}

AttrVals == {"int(1)", "int(2)", "int(3)", "2"}

AttrMaps == UNION {[ks -> AttrVals] : ks \in SUBSET AttrKeys}

InitProps ==
    /\ \E m \in AttrMaps :
          LET r == Patch(EmptyDoc, Container, NilV, Elem("div", m, NoStyle, <<>>))
          IN /\ dom = r.s.dom /\ nh = r.s.nh
             /\ currentVNode = r.v
    /\ rangeOrder = NoRange
    /\ inj = {} /\ css = <<>>
    /\ ok = TRUE
    /\ compIndex = EmptyIndex
    /\ dirtySet = {}
    /\ rafScheduled = FALSE /\ pending = 0
    /\ invalidator = "none"
    /\ mounted = FALSE
    /\ appState = DefaultTree
    /\ taState = "a"
    /\ fc = [dirty |-> TRUE, cache |-> NilV, gen |-> 0]
    /\ box = <<"ta">>
    /\ panelAttrs = PanelAttrs0
    /\ btn = NewButton
    /\ nid = 1
    /\ last = [NoLast EXCEPT !.nh0 = nh]
    /\ tick = FreshTick
    /\ cnt = NoCnt

\* r.updateProps(currentVNode, next), next holding the carried Element
UpdateProps(m) ==
    /\ ok /\ last.op = "init"
    /\ LET next == [currentVNode EXCEPT !.attrs = m]
           s == updateProps(S0, currentVNode, next)
       IN /\ dom' = s.dom /\ ok' = s.ok
          /\ currentVNode' = next
          /\ last' = [LastOf("updateProps", NoComp, s, ZeroCounts, 0) EXCEPT
                         !.calls = <<[parent |-> Container, old |-> currentVNode, new |-> next]>>]
    /\ UNCHANGED <<nh, inj, css, compIndex, dirtySet, rafScheduled, pending, invalidator, rangeOrder, box, panelAttrs, btn, mounted,
                   appState, taState, fc, nid, tick, cnt>>

NextProps == \E m \in AttrMaps : UpdateProps(m)

SpecProps == InitProps /\ [][NextProps]_vars

\* ------------------------------------------------------------------------
\* updateStyle on its own: one element created with any style, carrying
\* class tokens other code has put on it, restyled with any style
\* ------------------------------------------------------------------------
OtherTokens == {"x", "y"}

StyleRefs == StyleObjs \cup {NoStyle}

\* the document after other code has added the tokens extra to element h
WithTokens(d, h, extra) ==
    [d EXCEPT ![h].cls = @ \cup extra, ![h].hasCls = @ \/ extra # {}]

InitStyle ==
    /\ rangeOrder \in RangeOrders
    /\ \E st \in StyleRefs, extra \in SUBSET OtherTokens :
          LET r == Patch(EmptyDoc, Container, NilV, Elem("div", EmptyAttrs, st, <<>>))
          IN /\ dom = WithTokens(r.s.dom, r.v.el, extra) /\ nh = r.s.nh
             /\ inj = r.s.inj /\ css = r.s.css
             /\ currentVNode = r.v
    /\ ok = TRUE
    /\ compIndex = EmptyIndex
    /\ dirtySet = {}
    /\ rafScheduled = FALSE /\ pending = 0
    /\ invalidator = "none"
    /\ mounted = FALSE
    /\ appState = DefaultTree
    /\ taState = "a"
    /\ fc = [dirty |-> TRUE, cache |-> NilV, gen |-> 0]
    /\ box = <<"ta">>
    /\ panelAttrs = PanelAttrs0
    /\ btn = NewButton
    /\ nid = 1
    /\ last = [NoLast EXCEPT !.nh0 = nh]
    /\ tick = FreshTick
    /\ cnt = NoCnt

\* s is the document updateStyle left, next the new VNode
AfterUpdateStyle(s, next) ==
    /\ dom' = s.dom /\ ok' = s.ok
    /\ inj' = s.inj /\ css' = s.css
    /\ currentVNode' = next
    /\ last' = [LastOf("updateStyle", NoComp, s, ZeroCounts, 0) EXCEPT
                   !.calls = <<[parent |-> Container, old |-> currentVNode, new |-> next]>>]

\* r.updateStyle(currentVNode, next), next holding the carried Element
UpdateStyle(st) ==
    /\ ok /\ cnt.patches < MaxPatches
    /\ AfterUpdateStyle(updateStyle(S0, currentVNode, [currentVNode EXCEPT !.style = st]),
                        [currentVNode EXCEPT !.style = st])
    /\ cnt' = [cnt EXCEPT !.patches = @ + 1]
    /\ UNCHANGED <<nh, compIndex, dirtySet, rafScheduled, pending, invalidator, rangeOrder, box, panelAttrs, btn,
                   mounted, appState, taState, fc, nid, tick>>

NextStyle == \E st \in StyleRefs : UpdateStyle(st)

SpecStyle == InitStyle /\ [][NextStyle]_vars

\* ------------------------------------------------------------------------
\* Observations used by the properties
\* ------------------------------------------------------------------------
RECURSIVE DomShape(_, _)
\* what a DOM subtree shows: tags, text, attributes, children in order
DomShape(d, h) ==
    [kind |-> d[h].kind, tag |-> d[h].tag, text |-> d[h].text, attrs |-> d[h].attrs,
     hasCls |-> d[h].hasCls, cls |-> d[h].cls,
     kids |-> [i \in DOMAIN d[h].children |-> DomShape(d, d[h].children[i])]]

\* the children of the container after Patch(container, nil, v) on an empty document
FreshShape(v) ==
    LET r == Patch(EmptyDoc, Container, NilV, v)
    IN DomShape(r.s.dom, Container).kids

\* the last operation was a call of Renderer.Render
Rendered == last.top = 1 /\ last.op \in {"Render", "Mount", "AppSetState", "SetState", "UpdateState", "OnUpdate"}

\* ------------------------------------------------------------------------
\* Properties
\* ------------------------------------------------------------------------
\* C1: after any sequence of Renderer.Render calls the live DOM under the
\* container has the tags, text, attributes and child order that a fresh
\* materialisation of the last rendered tree has.
C1_DomMatchesLastRender ==
    (ok /\ Rendered) => DomShape(dom, Container).kids = FreshShape(currentVNode)

\* C2: three SetState calls on the same mounted component before the next
\* frame are serviced by exactly one Render invocation of the component and
\* one Patch call, not three.
C2_BatchedInvalidation ==
    (ok /\ invalidator # "none" /\ tick.clean /\ tick.mounted /\ tick.sets = 3
        /\ ~rafScheduled)
    => (tick.renders = 1 /\ tick.patches = 1)

\* C3: a state-mutating call (SetState, UpdateState, OnUpdate) only signals
\* the scheduler: the step itself invokes no Render and leaves the DOM and
\* currentVNode as they were.
C3_InvalidateOnlySignals ==
    [][last'.op \in {"SetState", "UpdateState", "OnUpdate"}
        => (dom' = dom /\ currentVNode' = currentVNode
            /\ last'.top = 0 /\ last'.rc = ZeroCounts)]_vars

\* C4: the identity SetState hands to the invalidation hook is the identity
\* under which the renderer indexed the component mounted by reference.
C4_HookGetsIndexedIdentity ==
    (ok /\ last.op \in {"SetState", "UpdateState"} /\ "ta" \in DOMAIN compIndex)
    => last.comp \in DOMAIN compIndex

Min(a, b) == IF a < b THEN a ELSE b

SameSlot(old, res) == old.tag = res.tag /\ old.type = res.type

RECURSIVE IdentityKept(_, _)
\* wherever a previous node and the node patched against it agree in kind
\* and tag, the patched node holds the previous node's handle
IdentityKept(old, res) ==
    IF old = NilV \/ res = NilV THEN TRUE
    ELSE IF SameSlot(old, res) THEN
        /\ res.el = old.el
        /\ \A i \in 1..Min(Len(old.children), Len(res.children)) :
              IdentityKept(old.children[i], res.children[i])
    ELSE TRUE

RECURSIVE KeptEls(_, _)
\* the handles of the nodes updated in place
KeptEls(old, res) ==
    IF old = NilV \/ res = NilV THEN {}
    ELSE IF SameSlot(old, res) THEN
        {old.el} \cup UNION {KeptEls(old.children[i], res.children[i]) :
                               i \in 1..Min(Len(old.children), Len(res.children))}
    ELSE {}

\* C5: when previous and next have the same kind and tag, Patch carries the
\* previous DOM handle forward onto next and never creates, replaces or
\* removes that element; the only calls on it write attributes, class or text.
C5_UpdatePreservesIdentity ==
    (ok /\ last.op = "PatchUpdate") =>
        LET old  == last.calls[1].old
            kept == KeptEls(old, currentVNode)
        IN /\ IdentityKept(old, currentVNode)
           /\ \A i \in DOMAIN last.ops :
                LET o == last.ops[i]
                IN /\ (o.h \in kept) =>
                        o.op \in {"setAttribute", "removeAttribute", "setClass", "setText"}
                   /\ (o.op = "replaceChild") => o.old \notin kept

C5_Witness ==
    /\ ok /\ last.op = "PatchUpdate"
    /\ SameSlot(last.calls[1].old, currentVNode)
    /\ last.calls[1].old.attrs # currentVNode.attrs
    /\ currentVNode.el = last.calls[1].old.el
    /\ last.ops # <<>>

RECURSIVE Handles(_)
Handles(v) ==
    IF v = NilV THEN {}
    ELSE {v.el} \cup UNION {Handles(v.children[i]) : i \in DOMAIN v.children}

RECURSIVE AllFresh(_, _)
\* every node of v is bound to a handle the document handed out from n on
AllFresh(v, n) ==
    IF v = NilV THEN TRUE
    ELSE /\ v.el # NoNode /\ v.el >= n
         /\ \A i \in DOMAIN v.children : AllFresh(v.children[i], n)

RECURSIVE ReplaceIsRemount(_, _, _)
ReplaceIsRemount(old, res, n) ==
    IF old = NilV \/ res = NilV THEN TRUE
    ELSE IF old.tag # res.tag \/ old.type # res.type THEN
        AllFresh(res, n) /\ Handles(res) \cap Handles(old) = {}
    ELSE \A i \in 1..Min(Len(old.children), Len(res.children)) :
            ReplaceIsRemount(old.children[i], res.children[i], n)

\* C6: when previous and next differ in tag or kind, next and all its
\* descendants get handles created by this call, none of them a handle of
\* the old subtree, and the new handle stands where the old one stood.
C6_ReplaceIsFullRemount ==
    (ok /\ last.op = "PatchUpdate") =>
        LET old == last.calls[1].old
        IN /\ ReplaceIsRemount(old, currentVNode, last.nh0)
           /\ (old.tag # currentVNode.tag \/ old.type # currentVNode.type) =>
                /\ dom[Container].children =
                      [i \in DOMAIN last.kids0 |->
                          IF last.kids0[i] = old.el THEN currentVNode.el ELSE last.kids0[i]]
                /\ dom[old.el].parent = NoNode

C6_Witness ==
    /\ ok /\ last.op = "PatchUpdate"
    /\ last.calls[1].old.tag # currentVNode.tag
    /\ last.calls[1].old.children # <<>>
    /\ [i \in DOMAIN currentVNode.children |-> currentVNode.children[i].text]
         = [i \in DOMAIN last.calls[1].old.children |-> last.calls[1].old.children[i].text]
    /\ currentVNode.el >= last.nh0

\* C7: Patch(parent, nil, V) followed by Patch(parent, V, nil) leaves the
\* parent with the children it had before the first call.
C7_CreateDeleteSymmetry ==
    (ok /\ last.op = "PatchDelete" /\ last.prevOp = "PatchCreate")
    => dom[Container].children = last.kidsPrev0

C7_Witness ==
    /\ ok /\ last.op = "PatchDelete" /\ last.prevOp = "PatchCreate"
    /\ last.kidsPrev0 # <<>>
    /\ last.calls[1].old.children # <<>>

OpsOf(name) == SelectSeq(last.ops, LAMBDA o : o.op = name)

OpKeys(name) == {OpsOf(name)[i].k : i \in DOMAIN OpsOf(name)}

\* C8: updateProps calls removeAttribute exactly for the keys of old absent
\* from new and setAttribute exactly for the keys of new whose value differs
\* from old's or that old lacks, each once, on the element, and makes no
\* other call; a key whose value is unchanged is not touched.
C8_AttributeDiffMinimal ==
    (ok /\ last.op = "updateProps") =>
        LET old == last.calls[1].old.attrs
            new == last.calls[1].new.attrs
            gone    == {k \in DOMAIN old : k \notin DOMAIN new}
            changed == {k \in DOMAIN new : k \notin DOMAIN old \/ old[k] # new[k]}
        IN /\ OpKeys("removeAttribute") = gone
           /\ Len(OpsOf("removeAttribute")) = Cardinality(gone)
           /\ OpKeys("setAttribute") = changed
           /\ Len(OpsOf("setAttribute")) = Cardinality(changed)
           /\ Len(last.ops) = Cardinality(gone) + Cardinality(changed)
           /\ \A i \in DOMAIN last.ops : last.ops[i].h = currentVNode.el

C8_Witness ==
    /\ ok /\ last.op = "updateProps"
    /\ last.calls[1].old.attrs = ("a" :> "int(1)") @@ ("b" :> "int(2)")
    /\ last.calls[1].new.attrs = ("b" :> "int(2)") @@ ("c" :> "int(3)")
    /\ Len(last.ops) = 2
    /\ DOMAIN dom[currentVNode.el].attrs = {"b", "c"}

\* the pairs a positional walk over two child lists visits, in order
PositionalPairs(parent, oldKids, newKids) ==
    LET n == IF Len(oldKids) > Len(newKids) THEN Len(oldKids) ELSE Len(newKids)
    IN [i \in 1..n |->
          [parent |-> parent,
           old |-> IF i <= Len(oldKids) THEN oldKids[i] ELSE NilV,
           new |-> IF i <= Len(newKids) THEN newKids[i] ELSE NilV]]

CallsUnder(h) == SelectSeq(last.calls, LAMBDA c : c.parent = h)

\* C9: for every element updated in place, the Patch calls made under its
\* handle are exactly the pairs (old[i] or nil, new[i] or nil) for
\* i = 0..max(len(old), len(new))-1, once each and in increasing order.
C9_PositionalChildren ==
    (ok /\ last.op = "PatchUpdate") =>
        \A j \in DOMAIN last.calls :
            LET c == last.calls[j]
            IN (c.old # NilV /\ c.new # NilV /\ c.old.type = "Element"
                  /\ c.new.type = "Element" /\ c.old.tag = c.new.tag)
               => CallsUnder(c.old.el)
                    = PositionalPairs(c.old.el, c.old.children, c.new.children)

C9_Witness ==
    /\ ok /\ last.op = "PatchUpdate"
    /\ Len(last.calls) = 4
    /\ Len(last.calls[1].old.children) = 2
    /\ Len(last.calls[1].new.children) = 3
    /\ last.calls[2].old.text # last.calls[2].new.text
    /\ last.calls[4].old = NilV

RECURSIVE Strip(_)
\* a tree as the render function returned it: no handle, no allocation number
Strip(v) ==
    IF v = NilV THEN v
    ELSE [v EXCEPT !.el = NoNode, !.id = 0,
                   !.children = [i \in DOMAIN v.children |-> Strip(v.children[i])]]

NoDup(seq) == \A i, j \in DOMAIN seq : i # j => seq[i] # seq[j]

IsPrefix(a, b) == Len(a) <= Len(b) /\ \A i \in DOMAIN a : b[i] = a[i]

\* class tokens some element of the document carries
ClassesInUse == UNION {dom[h].cls : h \in DOMAIN dom}

EqualContent(a, b) == Base(a) = Base(b) /\ Pseudos(a) = Pseudos(b)

\* C12: Style objects of equal content return the same class name whatever
\* order their maps are ranged over, so styling two elements with two such
\* objects injects one CSS text and gives both elements the same class.
C12_ClassNameFromContent ==
    (ok /\ last.op = "PatchCreate" /\ Strip(currentVNode) = TwinTree)
      => /\ \A a, b \in {"s1", "s3"} : EqualContent(a, b) => GetClassName(a) = GetClassName(b)
         /\ Len(css) = 1
         /\ dom[currentVNode.children[1].el].cls = dom[currentVNode.children[2].el].cls

\* a step of the animation-frame callback: it alone resets rafScheduled
FrameStep == rafScheduled /\ ~rafScheduled'

\* component d is mounted inside the subtree component a is mounted at
MountedInside(d, a) ==
    /\ a \in DOMAIN compIndex /\ d \in DOMAIN compIndex /\ a # d
    /\ FindById(compIndex[a], compIndex[d].id) # NilV

\* C13: when a frame fires with a component and one of its descendant
\* components both dirty, only the ancestor is processed: the descendant is
\* rendered once, as part of the ancestor, and is not patched as a root.
C13_DirtyRootCollapsing ==
    [][(FrameStep /\ ok' /\ {"box", "ta"} \subseteq dirtySet /\ MountedInside("ta", "box"))
         => /\ last'.rc["ta"] <= 1
            /\ last'.top <= Cardinality(dirtySet) - 1]_vars

RECURSIVE Connected(_, _)
\* the node is in the document: its parent chain ends at the container
Connected(d, h) ==
    IF h = Container THEN TRUE
    ELSE IF h \notin DOMAIN d THEN FALSE
    ELSE IF d[h].parent = NoNode THEN FALSE
    ELSE Connected(d, d[h].parent)

\* the component has a mount point whose element is in the document
MountedComp(c) == c \in DOMAIN compIndex /\ Connected(dom, compIndex[c].el)

\* C14: every mounted component that is dirty when the frame fires is
\* rendered exactly once in that flush, at least one Patch call per such
\* component is made at a mount point, and the dirty set is empty when the
\* flush ends.
C14_FrameServicesAllDirty ==
    [][(FrameStep /\ ok')
         => /\ dirtySet' = {}
            /\ \A c \in dirtySet : MountedComp(c) => last'.rc[c] = 1
            /\ last'.top >= Cardinality({c \in dirtySet : MountedComp(c)})]_vars

\* C15: a dirty component removed from the tree before the frame fires, by
\* a full Render or by the flush of another root, is skipped: a frame whose
\* dirty entries are all of that kind makes no Render call, no Patch call
\* and no DOM call.
C15_RemovedComponentIsNoOp ==
    [][(FrameStep /\ dirtySet # {} /\ \A c \in dirtySet : ~MountedComp(c))
         => /\ ok'
            /\ last'.top = 0
            /\ last'.ops = <<>>
            /\ \A c \in DOMAIN last'.rc : last'.rc[c] = 0]_vars

\* the dirty entry has no index entry, or its indexed node has no DOM
\* handle, or that handle has no parent
Unusable(c) ==
    \/ c \notin DOMAIN compIndex
    \/ compIndex[c].el = NoNode
    \/ ParentNode(S0, compIndex[c].el) = NoNode

\* C16: a frame holding a dirty entry without an index entry or without a
\* usable DOM handle or parent skips that entry, renders and patches every
\* other dirty component, is not aborted, and clears the dirty set.
C16_ViolationFatalToItsEntryOnly ==
    [][(FrameStep /\ \E c \in dirtySet : Unusable(c))
         => /\ ok'
            /\ dirtySet' = {}
            /\ last'.top = Cardinality({c \in dirtySet : ~Unusable(c)})
            /\ \A c \in dirtySet : ~Unusable(c) => last'.rc[c] >= 1]_vars

\* C17: Patch takes a nil on either side: with both nil it makes no DOM
\* call and does not panic; with a nil previous tree it appends one newly
\* created node to the parent and touches no node that existed; with a nil
\* next tree its only DOM call removes the previous handle from the parent.
C17_PatchNilSafe ==
    /\ last.op = "PatchNone" => (ok /\ last.ops = <<>>)
    /\ (ok /\ last.op = "PatchCreate")
         => /\ dom[Container].children = Append(last.kids0, currentVNode.el)
            /\ currentVNode.el >= last.nh0
            /\ \A i \in DOMAIN last.ops :
                  /\ last.ops[i].h >= last.nh0
                  /\ last.ops[i].op = "appendChild" /\ last.ops[i].p < last.nh0
                       => (i = Len(last.ops) /\ last.ops[i].p = Container)
    /\ (ok /\ last.op = "PatchDelete")
         => last.ops = <<[op |-> "removeChild", p |-> Container, h |-> last.calls[1].old.el]>>

\* what a flush leaves behind: the document, the current tree and the index
\* (trees without handles and allocation numbers), and whether it panicked
FlushOutcome(r) ==
    [ok |-> r.s.ok,
     dom |-> DomShape(r.s.dom, Container),
     cur |-> Strip(r.cur),
     idx |-> [c \in DOMAIN r.idx |-> Strip(r.idx[c])]]

OutcomeOf(order) == FlushOutcome(flushDirty(S0, Cs0, currentVNode, compIndex, order))

\* C18: whatever order the dirty roots of a frame are processed in, the
\* flush ends with the same document, the same current tree and the same
\* component index.
C18_FlushOrderIndependent ==
    (ok /\ rafScheduled)
      => Cardinality({OutcomeOf(o) : o \in Orders(filterDirtyRoots(dirtySet))}) = 1

\* the functional component was invalidated before the Render calls of this step
FcWasDirty == fc.dirty \/ last'.op = "OnUpdate"

\* C19: the dirty flag of a FunctionalComponent is true on construction and
\* after OnUpdate until the next Render, and false after a Render; a step
\* that calls Render invokes renderFunc once when the flag was true and not
\* at all when it was false, and then returns the VNode cached before.
C19_FunctionalRenderMemoised ==
    /\ fc.dirty /\ fc.gen = 0
    /\ [][/\ fc'.gen - fc.gen = (IF last'.rc["fc"] >= 1 /\ FcWasDirty THEN 1 ELSE 0)
          /\ last'.rc["fc"] >= 1 => ~fc'.dirty
          /\ last'.rc["fc"] = 0 => fc'.dirty = FcWasDirty
          /\ fc'.gen = fc.gen => fc'.cache = fc.cache]_vars

\* two Render calls in a row on a tree holding the component, no OnUpdate
\* in between: renderFunc has run once
C19_Witness ==
    /\ ok /\ last.op = "Render" /\ last.prevOp = "Render"
    /\ last.rc["fc"] = 1
    /\ \E i \in DOMAIN last.calls[1].old.children :
          last.calls[1].old.children[i] # NilV /\ last.calls[1].old.children[i].comp = "fc"
    /\ fc.gen = 1 /\ ~fc.dirty

\* the invalidation hook ran once in the step, with the receiver of SetState
HookedOnce ==
    CASE invalidator = "none" ->
           /\ last'.top = 0 /\ last'.rc = ZeroCounts /\ last'.ops = <<>>
           /\ dirtySet' = dirtySet /\ rafScheduled' = rafScheduled
      [] invalidator = "app" ->
           /\ last'.top = 1 /\ last'.rc["app"] = 1
           /\ dirtySet' = dirtySet /\ rafScheduled' = rafScheduled
      [] invalidator = "raf" ->
           /\ last'.top = 0 /\ last'.rc = ZeroCounts /\ last'.ops = <<>>
           /\ dirtySet' = dirtySet \cup {ReceiverOfSetState("ta")} /\ rafScheduled'

\* C20: after SetState(s) the state is s and the invalidation hook has run
\* once with the receiver; a step of UpdateState(fn) is the step
\* SetState(fn(GetState())) makes from the same state: same resulting
\* state, same single run of the hook.
C20_SetStateUpdateState ==
    [][/\ last'.op = "SetState" => (taState' = last'.arg /\ HookedOnce)
       /\ last'.op = "UpdateState"
            => (SetStateAs(Mutate(last'.arg, taState), "UpdateState", last'.arg) /\ HookedOnce)]_vars

\* UpdateState with a mutator that changes the state of the mounted
\* textarea, the hook rendering once
C20_Witness ==
    /\ ok /\ mounted /\ invalidator = "app"
    /\ last.op = "UpdateState" /\ last.arg = "flip" /\ last.prevOp = "SetState"
    /\ taState = "a"
    /\ last.rc["app"] = 1 /\ last.rc["ta"] = 1

RECURSIVE HasComponentNode(_)
HasComponentNode(v) ==
    /\ v # NilV
    /\ \/ v.type = "Component"
       \/ \E i \in DOMAIN v.children : HasComponentNode(v.children[i])

\* C21: every tree that Render and flushDirty hand to Patch is fully
\* expanded: no node of type Component is left anywhere in it, also when a
\* reference's Component is nil or a component renders another reference
C21_FullyExpanded ==
    (ok /\ last.op \in {"Render", "Frame"}) =>
        \A i \in DOMAIN last.calls : ~HasComponentNode(last.calls[i].new)

\* a frame that processes the single dirty root c
FlushOfOnly(c) == FrameStep /\ dirtySet = {c} /\ ok' /\ last'.top = 1

\* newSub of that frame: the tree its top-level Patch call received
NewSubOfFrame == last'.calls[1].new

\* C22: after flushDirty has processed a dirty root c with old subtree O and
\* new subtree N, the retained tree holds N where O was (also when O is the
\* root), O is no longer reachable from it, and the index maps c to N
C22_FlushSplicesSubtree ==
    [][\A c \in DOMAIN compIndex :
         (FlushOfOnly(c) /\ FindById(currentVNode, compIndex[c].id) # NilV) =>
            /\ FindById(currentVNode', NewSubOfFrame.id) # NilV
            /\ (currentVNode.id = compIndex[c].id => currentVNode'.id = NewSubOfFrame.id)
            /\ FindById(currentVNode', compIndex[c].id) = NilV
            /\ c \in DOMAIN compIndex' /\ compIndex'[c].id = NewSubOfFrame.id]_vars

\* C23: at most one animation-frame callback is pending: an Invalidate
\* step adds its component to the dirty set, leaves rafScheduled true and
\* requests a callback only if the flag was false; in every state the flag
\* is true exactly while a requested callback has not fired, and a
\* non-empty dirty set has a callback pending
C23_OneFramePending ==
    /\ [](ok => /\ pending <= 1
                /\ rafScheduled <=> (pending = 1)
                /\ dirtySet # {} => pending = 1)
    /\ [][last'.op = "Invalidate" =>
            /\ dirtySet' = dirtySet \cup {last'.comp}
            /\ rafScheduled'
            /\ pending' = (IF rafScheduled THEN pending ELSE pending + 1)]_vars

C23_Witness ==
    /\ ok /\ last.op = "Invalidate" /\ last.prevOp \in {"Invalidate", "OnUpdate"}
    /\ Cardinality(dirtySet) = 2
    /\ rafScheduled /\ pending = 1

\* the class attribute was written once, and nothing else was done
ClassRewritten(ops) == Len(ops) = 1 /\ ops[1].op = "setClass"

\* C24: style reconciliation of an element updated in place: with the same
\* Style reference nothing is touched; otherwise the old style's token is
\* removed, the new style's token is added and its CSS injected unless it
\* was, every other token on the element is kept, and the class attribute
\* is rewritten from the resulting set
C24_StyleReconciliation ==
    [][last'.op = "updateStyle" /\ cnt' # cnt =>
        IF currentVNode'.style = currentVNode.style
        THEN dom' = dom /\ inj' = inj /\ css' = css /\ last'.ops = <<>>
        ELSE /\ ClassRewritten(last'.ops)
             /\ \A t \in dom[currentVNode.el].cls \ StyleToken(currentVNode.style) :
                    t \in dom'[currentVNode.el].cls
             /\ \A t \in StyleToken(currentVNode.style) \ StyleToken(currentVNode'.style) :
                    t \notin dom'[currentVNode.el].cls
             /\ StyleToken(currentVNode'.style) \subseteq dom'[currentVNode.el].cls
             /\ dom'[currentVNode.el].cls \subseteq
                    dom[currentVNode.el].cls \cup StyleToken(currentVNode'.style)
             /\ inj' = inj \cup StyleToken(currentVNode'.style)
             /\ css' = (IF StyleToken(currentVNode'.style) \subseteq inj THEN css
                        ELSE Append(css, GetClassName(currentVNode'.style)))]_vars

\* an element carrying another token besides its style's was restyled with
\* a style of another class name
C24_Witness ==
    /\ ok /\ last.op = "updateStyle"
    /\ last.calls[1].old.style # NoStyle /\ last.calls[1].new.style # NoStyle
    /\ StyleToken(last.calls[1].old.style) # StyleToken(last.calls[1].new.style)
    /\ dom[currentVNode.el].cls = {"x"} \cup StyleToken(currentVNode.style)
    /\ Len(css) = 2

RECURSIVE AllBound(_)
\* every non-nil node of the tree has its Element bound
AllBound(v) ==
    v = NilV \/ (v.el # NoNode /\ \A i \in DOMAIN v.children : AllBound(v.children[i]))

\* C25: after every Render and every flush each non-nil node reachable from
\* currentVNode has a bound DOM handle, so that a later Patch never gets a
\* previous node without one
C25_RetainedNodesBound ==
    (ok /\ last.op \in {"Render", "Frame"}) =>
        /\ AllBound(currentVNode)
        /\ \A i \in DOMAIN last.calls : last.calls[i].old = NilV \/ last.calls[i].old.el # NoNode

\* C26: resolveComponents keeps the shape of a node that is no component
\* reference: the clone has as many children as the node, none of them an
\* added nil entry
C26_ExpansionKeepsShape ==
    [][\A t \in ExpandTrees :
         (RenderTree(t) /\ t.type # "Component") =>
            /\ Len(last'.calls[1].new.children) = Len(t.children)
            /\ \A i \in DOMAIN t.children :
                  last'.calls[1].new.children[i] # NilV]_vars

\* C27: an invalidation issued while flushDirty runs is not lost: a
\* component handed to Invalidate from inside a Render of the running flush
\* has been rendered by that flush or is still in the dirty set, for the
\* frame that Invalidate call scheduled, when the flush returns
C27_InvalidationDuringFlushKept ==
    [][(last'.op = "Frame" /\ ok') =>
          \A c \in last'.inv : last'.rc[c] >= 1 \/ c \in dirtySet']_vars

\* C28: after every Render and every flush each index entry compIndex[c]
\* is a node reachable from currentVNode whose Component is c and whose
\* DOM handle is attached under the container; a component that is not in
\* the current tree has no entry
C28_IndexConsistent ==
    (ok /\ last.op \in {"Render", "Frame"}) =>
        \A c \in DOMAIN compIndex :
            /\ FindById(currentVNode, compIndex[c].id) # NilV
            /\ compIndex[c].comp = c
            /\ Connected(dom, compIndex[c].el)

\* C29: the retained tree is a snapshot independent of the component's
\* working VNode: when an attribute of a component's VNode has been changed
\* in place after a Render and the component is rendered again, Patch sees
\* the old value in previous and the new value in next, so that the DOM
\* element shows the component's attributes once it has been rendered again
C29_RetainedTreeIsSnapshot ==
    (ok /\ last.op \in {"Render", "Frame"} /\ "panel" \in DOMAIN compIndex
        /\ last.rc["panel"] >= 1) =>
        dom[compIndex["panel"].el].attrs = panelAttrs

\* C30: fluent modifications of a functional component survive
\* invalidation and commute with it: the VNode a Render call returns
\* carries the style the cached VNode carried before the call, also when
\* OnUpdate has marked the component dirty in between, and so
\* Style(s) followed by Type(t) renders the same VNode as Type(t) followed
\* by Style(s)
C30_FluentSurvivesInvalidation ==
    [][(last'.op = "ButtonRender" /\ btn.cache # NilV) =>
          /\ btn'.cache.style = btn.cache.style
          /\ (last.op = "Type" /\ last.prevOp = "Style") =>
                 btn'.cache = ButtonStyle(ButtonType(btn, btn.typ), btn.cache.style).cache]_vars

====
